---- MODULE Spec2Model ----
(***************************************************************************)
(* Model of the video pitch pipeline.                                      *)
(*                                                                         *)
(*   - build_video.py: the build driver main() and its stages             *)
(*     verify_frozen_assets, build_voiceover, generate_timing_js,          *)
(*     deploy_to_remotion (specifications Spec and TimingSpec);            *)
(*   - videopitch.py: the VideoPitchEngine operations (EngineSpec).        *)
(*                                                                         *)
(* Times are exact integers in milliseconds: a measured duration of 5.004  *)
(* seconds is 5004.  Python's "{:.2f}" formatting is the rounding of       *)
(* milliseconds to centiseconds (Fmt2), JavaScript's Math.round is         *)
(* round-half-up (MathRound), Python's int() is truncation (IntTrunc).     *)
(* Scene ids and scene audio files are numbered 1..n in configuration      *)
(* order; scene i's id stands for the i-th id string of scenes.yaml.       *)
(***************************************************************************)
EXTENDS Integers, Sequences, FiniteSets, TLC

VARIABLES
  args,        \* build_video.py: parsed command line [deploy, render]
  config,      \* build_video.py: scenes.yaml as loaded by load_config
  audio,       \* scene WAV files on disk: file -> real duration in ms
  frozenDisk,  \* frozen assets present on disk
  files,       \* working and output files present in SCRIPT_DIR / REMOTION_DIR
  pc,          \* position of main()
  stdout,      \* stage banners printed by main(), in order
  toolCalls,   \* subprocess.run invocations so far, in order
  voiceover,   \* value returned by build_voiceover
  timingJs,    \* content written to TIMING.js
  rootTsx,     \* durationInFrames written to Root.tsx by deploy_to_remotion
  error,       \* the exception that ended main(), if any
  kokoro,      \* videopitch.py: whether AudioGenerator loaded the TTS model
  scenes,      \* VideoPitchEngine.scenes
  sceneWavs,   \* ids of the <scene.id>.wav files in project_dir
  concatList,  \* content of concat_list.txt in project_dir
  projectFiles,\* other files in project_dir
  timing,      \* VideoPitchEngine.timing, as written to TIMING.json
  result,      \* outcome of the engine operation called last
  ops,         \* number of engine operations called so far
  scriptText,  \* text handed to ScriptValidator.analyze last
  issues,      \* list returned by ScriptValidator.analyze
  dirEntries,  \* project_dir as generate_manifest finds it: name -> entry
  manifest,    \* document written to MANIFEST.sha256 by the last run
  hashedFiles  \* the tracked files read by the last generate_manifest run

buildVars == <<args, config, audio, frozenDisk, files, pc, stdout, toolCalls,
               voiceover, timingJs, rootTsx, error>>
engineVars == <<kokoro, scenes, sceneWavs, concatList, projectFiles, timing,
                result, ops>>
reportVars == <<scriptText, issues, dirEntries, manifest, hashedFiles>>
vars == <<buildVars, engineVars, reportVars>>

----------------------------------------------------------------------------
(* Bounds of the model *)

MaxScenes == 2          \* scenes in scenes.yaml, driver specification
MaxFrozen == 2          \* entries of frozen_assets
MaxTimingScenes == 3    \* scenes in scenes.yaml, timing specification

(* Measured durations (ms) the WAV files may have.  1337 is not a whole    *)
(* number of centiseconds, so the two-decimal formatting is not the        *)
(* identity on the start and end times; no sum of up to four of these      *)
(* durations and gaps ends in 5 ms, so no formatting tie arises.           *)
WavDurations == {1337, 3000, 5000}
DriverDurations == {3000, 5000}
GapChoices == {0, 500}
FpsChoices == {24, 25, 30, 60}
FadeOutChoices == {"unset", "true", "false"}

----------------------------------------------------------------------------
(* Arithmetic helpers *)

Even(n) == n % 2 = 0

\* f"{x:.2f}" of a time of ms milliseconds, as a number of centiseconds
\* (round half to even, as Python rounds an exactly representable tie).
Fmt2(ms) ==
  LET q == ms \div 10
      r == ms % 10
  IN IF r < 5 THEN q
     ELSE IF r > 5 THEN q + 1
     ELSE IF Even(q) THEN q ELSE q + 1

\* Math.round(num / den) for num >= 0, den > 0: round half up.
MathRound(num, den) == (2 * num + den) \div (2 * den)

\* Math.round(<cs centiseconds as d.dd> * fps)
RoundFrames(cs, fps) == MathRound(cs * fps, 100)

Abs(x) == IF x < 0 THEN -x ELSE x

RECURSIVE SumSeq(_)
SumSeq(s) == IF s = <<>> THEN 0 ELSE Head(s) + SumSeq(Tail(s))

----------------------------------------------------------------------------
(* build_video.py *)

CONCAT_LIST == "concat_build.txt"
SILENCE_FILE == "silence_gap.wav"
TEMP_WAV == "temp_concat.wav"
OUTPUT_MP3 == "full_voiceover.mp3"
TIMING_JS == "TIMING.js"
DEST_MP3 == "remotion/public/voiceover/full_voiceover.mp3"

NoError == [type |-> "none", what |-> "none", about |-> 0]

GetFadeOutDefaultFalse(scene) == scene.fadeOut = "true"

\* scene.get("fadeOut", True)
GetFadeOut(scene) ==
  IF scene.fadeOut = "unset" THEN TRUE ELSE scene.fadeOut = "true"

ToolCall(tool, step, ok) == [tool |-> tool, step |-> step, ok |-> ok]

\* verify_frozen_assets: the first frozen asset that is missing, 0 if none.
RECURSIVE FirstMissingFrom(_, _, _)
FirstMissingFrom(assets, disk, i) ==
  IF i > Len(assets) THEN 0
  ELSE IF assets[i] \notin disk THEN assets[i]
  ELSE FirstMissingFrom(assets, disk, i + 1)

VerifyFirstAssetOnly(cfg, disk) ==
  IF cfg.frozen_assets # <<>> /\ cfg.frozen_assets[1] \notin disk
  THEN cfg.frozen_assets[1] ELSE 0

VerifyFrozenAssets(cfg, disk) == FirstMissingFrom(cfg.frozen_assets, disk, 1)

\* The cursor after a scene: a gap follows every scene except the last.
AdvanceTrailingGap(current_time, duration, gap, last) ==
  current_time + duration + gap

Advance(current_time, duration, gap, last) ==
  IF last THEN current_time + duration ELSE current_time + duration + gap

\* The lines written to the concat list for one scene: its clip, followed by
\* the silence clip unless it is the last scene.
SilenceEntry == [kind |-> "silence", file |-> 0]
SceneEntry(file) == [kind |-> "scene", file |-> file]

PlanEntriesAlwaysGap(file, last) == <<SceneEntry(file), SilenceEntry>>

PlanEntries(file, last) ==
  IF last THEN <<SceneEntry(file)>> ELSE <<SceneEntry(file), SilenceEntry>>

\* The for-loop of build_voiceover, from scene i on.
RECURSIVE SceneLoop(_, _, _, _, _)
SceneLoop(cfg, aud, tool, i, acc) ==
  LET n == Len(cfg.scenes)
  IN IF i > n THEN acc
     ELSE
       LET scene == cfg.scenes[i] IN
       IF scene.file \notin DOMAIN aud
       THEN [acc EXCEPT !.error = [type |-> "FileNotFoundError",
                                   what |-> "Scene audio missing",
                                   about |-> scene.file]]
       ELSE IF tool.probeFailAt = i
       THEN [acc EXCEPT !.calls = Append(@, ToolCall("ffprobe", "duration", FALSE)),
                        !.error = [type |-> "ValueError",
                                   what |-> "float of empty ffprobe output",
                                   about |-> scene.file]]
       ELSE
         LET duration == aud[scene.file]
             entry == [id |-> scene.id,
                       start |-> acc.current_time,
                       end |-> acc.current_time + duration,
                       duration |-> duration,
                       fadeOut |-> GetFadeOut(scene)]
             last == ~(i < n)
         IN SceneLoop(cfg, aud, tool, i + 1,
              [acc EXCEPT
                 !.calls = Append(@, ToolCall("ffprobe", "duration", TRUE)),
                 !.scene_timings = Append(@, entry),
                 !.concat = @ \o PlanEntries(scene.file, last),
                 !.current_time = Advance(@, duration, cfg.meta.scene_gap_ms, last)])

\* build_voiceover(config): the returned value or the raised exception, the
\* external tools invoked and the files left on disk.
BuildVoiceover(cfg, aud, disk, tool) ==
  LET n == Len(cfg.scenes)
      silenceOk == tool.silence
      disk1 == (IF silenceOk THEN disk \cup {SILENCE_FILE} ELSE disk)
                 \cup {CONCAT_LIST}
      loop == SceneLoop(cfg, aud, tool, 1,
                [calls |-> <<ToolCall("ffmpeg", "silence", silenceOk)>>,
                 scene_timings |-> <<>>,
                 concat |-> <<>>,
                 current_time |-> 0,
                 error |-> NoError])
      \* the concat demuxer needs a non-empty list whose entries all exist;
      \* a tool that exits non-zero is taken to write no output file
      concatOk == tool.concat /\ n >= 1 /\ (n >= 2 => SILENCE_FILE \in disk1)
      disk2 == IF concatOk THEN disk1 \cup {TEMP_WAV} ELSE disk1
      encodeOk == tool.encode /\ TEMP_WAV \in disk2
      disk3 == IF encodeOk THEN disk2 \cup {OUTPUT_MP3} ELSE disk2
      calls3 == loop.calls \o <<ToolCall("ffmpeg", "concat", concatOk),
                                ToolCall("ffmpeg", "encode", encodeOk)>>
      disk4 == disk3 \ {CONCAT_LIST}
      base == [returned |-> FALSE, error |-> NoError, calls |-> calls3,
               files |-> disk4, mp3_path |-> OUTPUT_MP3,
               total_duration |-> loop.current_time,
               scene_timings |-> loop.scene_timings,
               concat |-> loop.concat]
  IN IF loop.error.type # "none"
     THEN [base EXCEPT !.error = loop.error, !.calls = loop.calls, !.files = disk1]
     ELSE IF SILENCE_FILE \notin disk4
     THEN [base EXCEPT !.error = [type |-> "FileNotFoundError",
                                  what |-> "unlink silence_gap.wav", about |-> 0]]
     ELSE IF TEMP_WAV \notin disk4
     THEN [base EXCEPT !.error = [type |-> "FileNotFoundError",
                                  what |-> "unlink temp_concat.wav", about |-> 0],
                       !.files = disk4 \ {SILENCE_FILE}]
     ELSE [base EXCEPT !.returned = TRUE,
                       !.files = disk4 \ {SILENCE_FILE, TEMP_WAV}]

TimingJsSceneEndOnly(t, fps, fade_frames) ==
  [id |-> t.id,
   start |-> RoundFrames(Fmt2(t.start), fps),
   duration |-> RoundFrames(Fmt2(t.end), fps)
                  + (IF t.fadeOut THEN fade_frames ELSE 0)]

\* One SCENES line of TIMING.js, with its JavaScript expressions evaluated.
TimingJsScene(t, fps, fade_frames) ==
  [id |-> t.id,
   start |-> RoundFrames(Fmt2(t.start), fps),
   duration |-> RoundFrames(Fmt2(t.end) - Fmt2(t.start), fps)
                  + (IF t.fadeOut THEN fade_frames ELSE 0)]

\* generate_timing_js: the content of TIMING.js.
GenerateTimingJs(cfg, total_duration, scene_timings) ==
  [fade_frames |-> cfg.meta.fade_frames,
   scenes |-> [i \in 1..Len(scene_timings) |->
                 TimingJsScene(scene_timings[i], cfg.meta.fps, cfg.meta.fade_frames)],
   total_cs |-> Fmt2(total_duration),
   durationInFrames |-> RoundFrames(Fmt2(total_duration), cfg.meta.fps)]

NoVoiceover == [returned |-> FALSE, mp3_path |-> "", total_duration |-> 0,
                scene_timings |-> <<>>, concat |-> <<>>]
NoTimingJs == [fade_frames |-> 0, scenes |-> <<>>, total_cs |-> 0,
               durationInFrames |-> 0]

ToolOutcomes(n) ==
  [silence : BOOLEAN, probeFailAt : 0..n, concat : BOOLEAN, encode : BOOLEAN]
ToolsOk == [silence |-> TRUE, probeFailAt |-> 0, concat |-> TRUE, encode |-> TRUE]

----------------------------------------------------------------------------
(* main() of build_video.py, one action per stage *)

\* main, lines 236-237
VerifyStep ==
  /\ pc = "verify"
  /\ stdout' = Append(stdout, "Verifying frozen assets")
  /\ LET missing == VerifyFrozenAssets(config, frozenDisk) IN
       IF missing # 0
       THEN /\ error' = [type |-> "FileNotFoundError",
                         what |-> "Frozen asset missing", about |-> missing]
            /\ pc' = "crashed"
       ELSE /\ error' = error
            /\ pc' = "voiceover"
  /\ UNCHANGED <<args, config, audio, frozenDisk, files, toolCalls, voiceover,
                 timingJs, rootTsx, engineVars, reportVars>>

\* main, lines 239-241, with the external tools' outcomes drawn from outcomes
BuildVoiceoverWith(outcomes) ==
  /\ pc = "voiceover"
  /\ stdout' = Append(stdout, "Building voiceover")
  /\ \E tool \in outcomes :
       LET r == BuildVoiceover(config, audio, files, tool) IN
         /\ toolCalls' = toolCalls \o r.calls
         /\ files' = r.files
         /\ IF r.returned
            THEN /\ voiceover' = [returned |-> TRUE, mp3_path |-> r.mp3_path,
                                  total_duration |-> r.total_duration,
                                  scene_timings |-> r.scene_timings,
                                  concat |-> r.concat]
                 /\ error' = error
                 /\ pc' = "timing"
            ELSE /\ voiceover' = voiceover
                 /\ error' = r.error
                 /\ pc' = "crashed"
  /\ UNCHANGED <<args, config, audio, frozenDisk, timingJs, rootTsx, engineVars, reportVars>>

BuildVoiceoverStep == BuildVoiceoverWith(ToolOutcomes(Len(config.scenes)))

\* main, lines 243-245
GenerateTimingStep ==
  /\ pc = "timing"
  /\ stdout' = Append(stdout, "Generating timing")
  /\ timingJs' = GenerateTimingJs(config, voiceover.total_duration,
                                  voiceover.scene_timings)
  /\ files' = files \cup {TIMING_JS}
  /\ pc' = "deploy"
  /\ UNCHANGED <<args, config, audio, frozenDisk, toolCalls, voiceover, rootTsx,
                 error, engineVars, reportVars>>

\* main, lines 247-250, and deploy_to_remotion
DeployStep ==
  /\ pc = "deploy"
  /\ IF ~args.deploy
     THEN /\ pc' = "render"
          /\ UNCHANGED <<stdout, files, rootTsx, error>>
     ELSE /\ stdout' = Append(stdout, "Deploying to remotion")
          /\ IF voiceover.mp3_path \notin files
             THEN \* shutil.copy of a file the encoder did not write
                  /\ error' = [type |-> "FileNotFoundError",
                               what |-> "copy full_voiceover.mp3", about |-> 0]
                  /\ pc' = "crashed"
                  /\ UNCHANGED <<files, rootTsx>>
             ELSE /\ files' = files \cup {DEST_MP3}
                  /\ rootTsx' = RoundFrames(Fmt2(voiceover.total_duration),
                                            config.meta.fps)
                  /\ pc' = "render"
                  /\ error' = error
  /\ UNCHANGED <<args, config, audio, frozenDisk, toolCalls, voiceover, timingJs,
                 engineVars, reportVars>>

\* main, lines 252-266
RenderStep ==
  /\ pc = "render"
  /\ IF args.render /\ ~args.deploy
     THEN /\ stdout' = Append(stdout, "--render requires --deploy")
          /\ pc' = "returned"
          /\ UNCHANGED toolCalls
     ELSE /\ pc' = "complete"
          /\ IF args.render
             THEN /\ \E ok \in BOOLEAN :
                       toolCalls' = Append(toolCalls, ToolCall("npx", "render", ok))
                  /\ stdout' = stdout \o <<"Rendering video", "Build complete!">>
             ELSE /\ stdout' = Append(stdout, "Build complete!")
                  /\ UNCHANGED toolCalls
  /\ UNCHANGED <<args, config, audio, frozenDisk, files, voiceover, timingJs,
                 rootTsx, error, engineVars, reportVars>>

----------------------------------------------------------------------------
(* videopitch.py: VideoPitchEngine *)

MaxEngineOps == 3       \* engine operations called in one session

None == -1              \* Scene.duration before generate_audio has run

EngineDurations == {2004, 2990, 3000}
EngineFps == {24, 30}
DefaultGapMs == 800

SILENCE_WAV == "silence.wav"
ENGINE_CONCAT_LIST == "concat_list.txt"
FULL_WAV == "full_voiceover.wav"
FULL_MP3 == "full_voiceover.mp3"
TIMING_JSON == "TIMING.json"

\* int(x) for x = num / den >= 0
IntTrunc(num, den) == num \div den

(* Script text.  A script is the list of its parts between scene markers,  *)
(* a part the list of its lines, a line the list of its characters.        *)
Upper == {"H", "S", "C"}
LowerOf == [c \in Upper |-> CASE c = "H" -> "h" [] c = "S" -> "s" [] c = "C" -> "c"]
Lower(c) == IF c \in Upper THEN LowerOf[c] ELSE c
IsAlnum(c) == c \in {"h", "o", "k", "s", "c", "e", "n", "i", "l",
                     "H", "S", "C", "1", "2", "3"}

RECURSIVE LStrip(_)
LStrip(line) ==
  IF line # <<>> /\ Head(line) = " " THEN LStrip(Tail(line)) ELSE line

RECURSIVE RStrip(_)
RStrip(line) ==
  IF line # <<>> /\ line[Len(line)] = " "
  THEN RStrip(SubSeq(line, 1, Len(line) - 1)) ELSE line

Strip(line) == RStrip(LStrip(line))

\* re.sub(r'[^a-zA-Z0-9]', '', first_line.lower())
NormalizeId(line) ==
  LET lowered == [i \in 1..Len(line) |-> Lower(line[i])]
  IN SelectSeq(lowered, IsAlnum)

Digit == <<"1", "2", "3", "4", "5", "6", "7", "8", "9">>

\* f"scene{i+1}" for the part at 0-based position i (position = i + 1 here)
PositionalId(position) == <<"s", "c", "e", "n", "e", Digit[position]>>

\* part.strip() on a list of lines: blank lines at both ends are dropped
RECURSIVE DropBlankFront(_)
DropBlankFront(lines) ==
  IF lines # <<>> /\ Strip(Head(lines)) = <<>>
  THEN DropBlankFront(Tail(lines)) ELSE lines

RECURSIVE DropBlankBack(_)
DropBlankBack(lines) ==
  IF lines # <<>> /\ Strip(lines[Len(lines)]) = <<>>
  THEN DropBlankBack(SubSeq(lines, 1, Len(lines) - 1)) ELSE lines

StripPart(lines) ==
  LET kept == DropBlankBack(DropBlankFront(lines))
      front == IF kept = <<>> THEN kept ELSE [kept EXCEPT ![1] = LStrip(@)]
  IN IF front = <<>> THEN front ELSE [front EXCEPT ![Len(front)] = RStrip(@)]

NewScene(id, text) == [id |-> id, text |-> text, duration |-> None]

\* The loop of parse_script over the parts from position i on.
RECURSIVE ParseParts(_, _, _)
ParseParts(parts, i, acc) ==
  IF i > Len(parts) THEN acc
  ELSE
    LET part == StripPart(parts[i]) IN
    IF part = <<>> THEN ParseParts(parts, i + 1, acc)
    ELSE
      LET first_line == Strip(part[1])
          heading == first_line[1] = "#" \/ first_line[Len(first_line)] = ":"
          scene == IF heading
                   THEN NewScene(NormalizeId(first_line), StripPart(Tail(part)))
                   ELSE NewScene(PositionalId(i), part)
      IN ParseParts(parts, i + 1, Append(acc, scene))

ParseScriptText(parts) == ParseParts(parts, 1, <<>>)

LineHashHook == <<"#", " ", "H", "o", "o", "k">>
LineHookColon == <<"h", "o", "o", "k", ":">>
LineHashScene2 == <<"#", "S", "c", "e", "n", "e", " ", "2">>
LineClose == <<" ", "#", "C", "l", "o", "s", "e", " ">>
LineText == <<"h", "i">>

PartEmpty == << <<" ">> >>
PartHook == <<LineHashHook, LineText>>
PartHookColon == <<LineHookColon, LineText>>
PartScene2 == <<LineHashScene2, LineText>>
PartClose == <<LineClose, LineText>>
PartPlain == <<LineText>>

\* The scripts handed to parse_script
Scripts ==
  { <<PartEmpty>>,
    <<PartPlain>>,
    <<PartHook, PartClose>>,
    <<PartHook, PartHookColon>>,
    <<PartPlain, PartScene2>>,
    <<PartScene2, PartPlain>>,
    <<PartHook, PartEmpty, PartPlain>>,
    <<PartHook, PartClose, PartPlain>> }

NoTiming == [fps |-> 0, gap_ms |-> 0, scenes |-> <<>>, total_frames |-> 0,
             written |-> FALSE]

Outcome(op, raised) == [op |-> op, raised |-> raised, value |-> 0]

EngineStart ==
  /\ scenes = <<>>
  /\ sceneWavs = {}
  /\ concatList = <<>>
  /\ projectFiles = {}
  /\ timing = NoTiming
  /\ result = Outcome("init", "none")
  /\ ops = 0

\* parse_script(script_text)
ParseScript ==
  /\ ops < MaxEngineOps
  /\ \E script \in Scripts : scenes' = ParseScriptText(script)
  /\ result' = Outcome("parse_script", "none")
  /\ ops' = ops + 1
  /\ UNCHANGED <<kokoro, sceneWavs, concatList, projectFiles, timing, buildVars, reportVars>>

\* generate_audio(): AudioGenerator.generate raises RuntimeError without the
\* model; otherwise every scene's WAV is written and its duration stored.
\* The length of the synthesized samples depends on the text and on the voice
\* configuration in force (set_voice_config), so it is drawn anew per call.
GenerateAudio ==
  /\ ops < MaxEngineOps
  /\ ops' = ops + 1
  /\ IF scenes # <<>> /\ ~kokoro
     THEN /\ result' = Outcome("generate_audio", "RuntimeError")
          /\ UNCHANGED <<scenes, sceneWavs>>
     ELSE /\ \E d \in [1..Len(scenes) -> EngineDurations] :
               scenes' = [i \in 1..Len(scenes) |->
                            [scenes[i] EXCEPT !.duration = d[i]]]
          /\ sceneWavs' = sceneWavs \cup {scenes[i].id : i \in 1..Len(scenes)}
          /\ result' = Outcome("generate_audio", "none")
  /\ UNCHANGED <<kokoro, concatList, projectFiles, timing, buildVars, reportVars>>

\* The frames computed by the loop of generate_timing from scene i on;
\* "TypeError" when a duration is None (None * fps).
RECURSIVE TimingLoop(_, _, _, _, _)
TimingLoop(scs, fps, gap_ms, i, acc) ==
  IF i > Len(scs) THEN acc
  ELSE IF scs[i].duration = None THEN [acc EXCEPT !.raised = "TypeError"]
  ELSE
    LET duration_frames == IntTrunc(scs[i].duration * fps, 1000)
        gap_frames == IntTrunc(gap_ms * fps, 1000)
    IN TimingLoop(scs, fps, gap_ms, i + 1,
         [acc EXCEPT
            !.scenes = Append(@, [id |-> scs[i].id,
                                  start_frame |-> acc.current_frame,
                                  duration_frames |-> duration_frames,
                                  duration_ms |-> scs[i].duration]),
            !.current_frame = @ + duration_frames + gap_frames])

\* generate_timing(fps, gap_seconds); total_frames is total_duration * fps
ComputeTiming(scs, fps, gap_ms) ==
  LET loop == TimingLoop(scs, fps, gap_ms, 1,
                [scenes |-> <<>>, current_frame |-> 0, raised |-> "none"])
  IN [raised |-> loop.raised,
      timing |-> [fps |-> fps, gap_ms |-> gap_ms, scenes |-> loop.scenes,
                  total_frames |-> loop.current_frame - IntTrunc(gap_ms * fps, 1000),
                  written |-> TRUE]]

GenerateTiming ==
  /\ ops < MaxEngineOps
  /\ ops' = ops + 1
  /\ \E fps \in EngineFps :
       LET r == ComputeTiming(scenes, fps, DefaultGapMs) IN
         IF r.raised # "none"
         THEN /\ result' = Outcome("generate_timing", r.raised)
              /\ UNCHANGED <<timing, projectFiles>>
         ELSE /\ result' = Outcome("generate_timing", "none")
              /\ timing' = r.timing
              /\ projectFiles' = projectFiles \cup {TIMING_JSON}
  /\ UNCHANGED <<kokoro, scenes, sceneWavs, concatList, buildVars, reportVars>>

\* The lines written to concat_list.txt by concatenate_audio, from scene i on
RECURSIVE ConcatListFrom(_, _)
ConcatListFrom(scs, i) ==
  IF i > Len(scs) THEN <<>>
  ELSE PlanEntries(scs[i].id, ~(i < Len(scs))) \o ConcatListFrom(scs, i + 1)

\* concatenate_audio(gap_seconds): the files left in project_dir
ConcatenateAudioFiles(scs, wavs, disk, tool) ==
  LET disk1 == disk \cup {SILENCE_WAV, ENGINE_CONCAT_LIST}
      concatOk == /\ tool.concat
                  /\ scs # <<>>
                  /\ \A i \in 1..Len(scs) : scs[i].id \in wavs
      disk2 == IF concatOk THEN disk1 \cup {FULL_WAV} ELSE disk1
      encodeOk == tool.encode /\ FULL_WAV \in disk2
  IN [files |-> IF encodeOk THEN disk2 \cup {FULL_MP3} ELSE disk2,
      calls |-> <<ToolCall("ffmpeg", "concat", concatOk),
                  ToolCall("ffmpeg", "encode", encodeOk)>>]

ConcatenateAudio ==
  /\ ops < MaxEngineOps
  /\ ops' = ops + 1
  /\ \E tool \in [concat : BOOLEAN, encode : BOOLEAN] :
       LET r == ConcatenateAudioFiles(scenes, sceneWavs, projectFiles, tool) IN
         /\ projectFiles' = r.files
         /\ concatList' = ConcatListFrom(scenes, 1)
         /\ result' = [op |-> "concatenate_audio", raised |-> "none",
                       value |-> Len(SelectSeq(r.calls, LAMBDA c : ~c.ok))]
  /\ UNCHANGED <<kokoro, scenes, sceneWavs, timing, buildVars, reportVars>>

\* s.duration or 0
DurationOrZero(scene) == IF scene.duration = None THEN 0 ELSE scene.duration

\* summary(): value is the total duration reported, in ms
Summary ==
  /\ ops < MaxEngineOps
  /\ ops' = ops + 1
  /\ result' = [op |-> "summary", raised |-> "none",
                value |-> SumSeq([i \in 1..Len(scenes) |-> DurationOrZero(scenes[i])])]
  /\ UNCHANGED <<kokoro, scenes, sceneWavs, concatList, projectFiles, timing,
                 buildVars, reportVars>>

----------------------------------------------------------------------------
(* videopitch.py: ScriptValidator.analyze.  Texts are strings; positions   *)
(* count from 1.                                                            *)

MaxPieces == 3          \* phrases joined into one script text

CharAt(text, i) == SubSeq(text, i, i)
From(text, i) == SubSeq(text, i, Len(text))

\* sub in text
Contains(text, sub) ==
  \E i \in 1..(Len(text) - Len(sub) + 1) : SubSeq(text, i, i + Len(sub) - 1) = sub

UpperLetters == "ABCDEFGHIJKLMNOPQRSTUVWXYZ"
LowerLetters == "abcdefghijklmnopqrstuvwxyz"

LowerChar(c) ==
  IF \E k \in 1..Len(UpperLetters) : CharAt(UpperLetters, k) = c
  THEN CharAt(LowerLetters, CHOOSE k \in 1..Len(UpperLetters) : CharAt(UpperLetters, k) = c)
  ELSE c

\* text.lower()
RECURSIVE StrLower(_)
StrLower(text) ==
  IF Len(text) = 0 THEN "" ELSE LowerChar(CharAt(text, 1)) \o StrLower(From(text, 2))

IsDigit(text, i) ==
  i <= Len(text) /\ CharAt(text, i) \in {"0", "1", "2", "3", "4", "5", "6", "7", "8", "9"}
IsSpace(text, i) == i <= Len(text) /\ CharAt(text, i) \in {" ", "\t", "\n"}

\* Last position of the longest run of digits (of whitespace) starting at i;
\* i - 1 when the run is empty: the greedy \d+ and \s*.
RECURSIVE DigitsEnd(_, _)
DigitsEnd(text, i) == IF IsDigit(text, i) THEN DigitsEnd(text, i + 1) ELSE i - 1
RECURSIVE SpaceEnd(_, _)
SpaceEnd(text, i) == IF IsSpace(text, i) THEN SpaceEnd(text, i + 1) ELSE i - 1

\* Last position of the longest run of groups ,\d{3} starting at j; j - 1
\* when there is none.
RECURSIVE GroupsEnd(_, _)
GroupsEnd(text, j) ==
  IF /\ j <= Len(text)
     /\ CharAt(text, j) = ","
     /\ IsDigit(text, j + 1) /\ IsDigit(text, j + 2) /\ IsDigit(text, j + 3)
  THEN GroupsEnd(text, j + 4)
  ELSE j - 1

Min(a, b) == IF a < b THEN a ELSE b

ACRONYMS == <<"LAUSD", "SFUSD", "NYCDOE", "SSO", "LTI", "SAML", "FERPA",
              "COPPA", "API", "PII">>
COMPOUNDS == <<"data breach", "on boarding", "sign on">>
BRANDS == <<"PowerSchool", "SchoolDay", "Clever", "OneRoster", "Ed-Fi", "OpenID">>

NumberPatternsLargeFirst ==
  <<"large_number", "currency", "percentage", "formatted_number">>

\* \$(\d+), (\d+)\s*million, (\d+)\s*%, (\d{1,3}(?:,\d{3})+), in list order
number_patterns == <<"currency", "large_number", "percentage", "formatted_number">>

\* Last position of the match of a pattern that starts at position i, 0 when
\* the pattern does not match there (re.IGNORECASE).
MatchEnd(num_type, text, i) ==
  CASE num_type = "currency" ->
         IF CharAt(text, i) = "$" /\ IsDigit(text, i + 1)
         THEN DigitsEnd(text, i + 1) ELSE 0
    [] num_type = "large_number" ->
         IF ~IsDigit(text, i) THEN 0
         ELSE LET word == SpaceEnd(text, DigitsEnd(text, i) + 1) + 1
              IN IF StrLower(SubSeq(text, word, Min(word + 6, Len(text)))) = "million"
                 THEN word + 6 ELSE 0
    [] num_type = "percentage" ->
         IF ~IsDigit(text, i) THEN 0
         ELSE LET sign == SpaceEnd(text, DigitsEnd(text, i) + 1) + 1
              IN IF sign <= Len(text) /\ CharAt(text, sign) = "%" THEN sign ELSE 0
    [] num_type = "formatted_number" ->
         IF ~IsDigit(text, i) THEN 0
         ELSE LET head == Min(DigitsEnd(text, i), i + 2)
                  groups == GroupsEnd(text, head + 1)
              IN IF groups > head THEN groups ELSE 0

\* re.finditer(pattern, text): the matches from position i on, left to right,
\* none overlapping another
RECURSIVE FindIter(_, _, _)
FindIter(num_type, text, i) ==
  IF i > Len(text) THEN <<>>
  ELSE LET end == MatchEnd(num_type, text, i)
       IN IF end = 0
          THEN FindIter(num_type, text, i + 1)
          ELSE <<[start |-> i, group0 |-> SubSeq(text, i, end)]>>
                 \o FindIter(num_type, text, end + 1)

\* A ScriptIssue.  num_type is the part of a number issue's suggestion that
\* varies; match_start is match.start() + 1, kept for stating properties.
ScriptIssue(issue_type, found, action, num_type, match_start) ==
  [issue_type |-> issue_type, found |-> found, action |-> action,
   num_type |-> num_type, match_start |-> match_start]

\* One issue per key of a table that passed the test, in the table's order
TableIssues(hits, issue_type, action) ==
  [k \in 1..Len(hits) |-> ScriptIssue(issue_type, hits[k], action, "", 0)]

\* The issues of the number patterns from the p-th on
RECURSIVE NumberIssues(_, _)
NumberIssues(text, p) ==
  IF p > Len(number_patterns) THEN <<>>
  ELSE LET matches == FindIter(number_patterns[p], text, 1)
       IN [k \in 1..Len(matches) |->
             ScriptIssue("number", matches[k].group0, "auto",
                         number_patterns[p], matches[k].start)]
            \o NumberIssues(text, p + 1)

\* ScriptValidator.analyze(text)
Analyze(text) ==
  TableIssues(SelectSeq(ACRONYMS, LAMBDA a : Contains(text, a)),
              "acronym", "choose")
    \o TableIssues(SelectSeq(COMPOUNDS,
                             LAMBDA c : Contains(StrLower(text), StrLower(c))),
                   "compound", "confirm")
    \o NumberIssues(text, 1)
    \o TableIssues(SelectSeq(BRANDS, LAMBDA b : Contains(text, b)),
                   "brand", "confirm")

\* The phrases script texts are made of
TextPieces ==
  {"$3", "5 million", "2 Million", "7%", "1,000", "API", "SSO", "Sign on",
   "Clever", "Ed-Fi"}

RECURSIVE TextsOf(_)
TextsOf(n) ==
  IF n = 0 THEN {""}
  ELSE TextsOf(n - 1) \cup {t \o p : t \in TextsOf(n - 1), p \in TextPieces}

\* issues = validator.analyze(script_text)
AnalyzeScript ==
  /\ issues' = Analyze(scriptText)
  /\ UNCHANGED <<scriptText, dirEntries, manifest, hashedFiles, buildVars, engineVars>>

----------------------------------------------------------------------------
(* videopitch.py: VideoPitchEngine.generate_manifest *)

MaxDirFiles == 2        \* entries of project_dir besides MANIFEST.sha256

MANIFEST_FILE == "MANIFEST.sha256"
TrackedSuffixes == {".wav", ".mp3", ".yaml", ".json"}

\* Names found in project_dir
FileNames ==
  {"SCRIPT.yaml", "TIMING.json", "close.wav", "hook.wav", "full_voiceover.mp3",
   "notes.txt"}

\* What a name holds: a regular file with its bytes, or a directory.  The
\* bytes of MANIFEST.sha256 are the document in manifest, written 0 here.
FileBytes == {1, 2}
DirEntries == [is_file : {TRUE}, bytes : FileBytes] \cup {[is_file |-> FALSE, bytes |-> 0]}

\* datetime.now() of a run
ClockTimes == {1, 2}

EmptyDir == [name \in {} |-> 0]
NoManifest == [written |-> FALSE, generated |-> 0, lines |-> <<>>]

\* The characters of the file names, in code point order
CodePoints == " -.0123456789ABCDEFGHIJKLMNOPQRSTUVWXYZ_abcdefghijklmnopqrstuvwxyz"
Ord(c) == CHOOSE k \in 1..Len(CodePoints) : CharAt(CodePoints, k) = c

\* a < b for two names of the same directory
RECURSIVE StrLess(_, _)
StrLess(a, b) ==
  IF Len(b) = 0 THEN FALSE
  ELSE IF Len(a) = 0 THEN TRUE
  ELSE IF CharAt(a, 1) = CharAt(b, 1) THEN StrLess(From(a, 2), From(b, 2))
  ELSE Ord(CharAt(a, 1)) < Ord(CharAt(b, 1))

RECURSIVE Insert(_, _)
Insert(name, sorted) ==
  IF sorted = <<>> THEN <<name>>
  ELSE IF StrLess(name, Head(sorted)) THEN <<name>> \o sorted
  ELSE <<Head(sorted)>> \o Insert(name, Tail(sorted))

\* sorted(listing)
RECURSIVE Sorted(_)
Sorted(listing) ==
  IF listing = <<>> THEN <<>> ELSE Insert(Head(listing), Sorted(Tail(listing)))

\* Path.suffix: from the last dot on, unless the name starts or ends with it
LastDot(name) ==
  LET dots == {i \in 1..Len(name) : CharAt(name, i) = "."}
  IN IF dots = {} THEN 0 ELSE CHOOSE i \in dots : \A j \in dots : j <= i
Suffix(name) ==
  LET i == LastDot(name)
  IN IF 1 < i /\ i < Len(name) THEN From(name, i) ELSE ""

\* file.is_file() and file.suffix in ['.wav', '.mp3', '.yaml', '.json']
IsTracked(entries, name) ==
  entries[name].is_file /\ Suffix(name) \in TrackedSuffixes

\* hashlib.sha256(bytes).hexdigest(): equal bytes give equal digests
Sha256(bytes) == <<"sha256", bytes>>

\* The orders in which glob("*") may enumerate a set of names
Listings(names) ==
  {l \in [1..Cardinality(names) -> names] :
     \A i, j \in 1..Cardinality(names) : i # j => l[i] # l[j]}

\* manifest_lines: the Generated header and one line per tracked file
ManifestDocument(entries, listing, now) ==
  LET tracked == SelectSeq(Sorted(listing), LAMBDA name : IsTracked(entries, name))
  IN [written |-> TRUE,
      generated |-> now,
      lines |-> [k \in 1..Len(tracked) |->
                   [sha256 |-> Sha256(entries[tracked[k]].bytes),
                    name |-> tracked[k]]]]

\* The tracked files with their bytes
TrackedFiles(entries) ==
  [name \in {f \in DOMAIN entries : IsTracked(entries, f)} |-> entries[name].bytes]

\* generate_manifest()
GenerateManifest ==
  /\ \E now \in ClockTimes, listing \in Listings(DOMAIN dirEntries) :
       manifest' = ManifestDocument(dirEntries, listing, now)
  /\ hashedFiles' = TrackedFiles(dirEntries)
  /\ dirEntries' = (MANIFEST_FILE :> [is_file |-> TRUE, bytes |-> 0]) @@ dirEntries
  /\ UNCHANGED <<scriptText, issues, buildVars, engineVars>>

\* A stage of the pipeline, or anything else, writes an entry of project_dir
WriteEntry ==
  /\ \E name \in FileNames, entry \in DirEntries :
       /\ \/ name \in DOMAIN dirEntries
          \/ Cardinality(DOMAIN dirEntries \ {MANIFEST_FILE}) < MaxDirFiles
       /\ dirEntries' = (name :> entry) @@ dirEntries
  /\ UNCHANGED <<scriptText, issues, manifest, hashedFiles, buildVars, engineVars>>

ManifestStart ==
  /\ dirEntries = EmptyDir
  /\ manifest = NoManifest
  /\ hashedFiles = EmptyDir

ReportStart ==
  /\ scriptText = ""
  /\ issues = <<>>
  /\ ManifestStart

----------------------------------------------------------------------------
(* Configurations and specifications of build_video.py *)

SceneRecords(n, fades) ==
  { [i \in 1..n |-> [id |-> i, file |-> i, fadeOut |-> f[i]]] :
      f \in [1..n -> fades] }

Meta(gap, fps, fade) == [scene_gap_ms |-> gap, fps |-> fps, fade_frames |-> fade]

BuildStart ==
  /\ files = {}
  /\ stdout = <<>>
  /\ toolCalls = <<>>
  /\ voiceover = NoVoiceover
  /\ timingJs = NoTimingJs
  /\ rootTsx = 0
  /\ error = NoError

\* The driver: any command line, at most one scene WAV missing, any subset of
\* the frozen assets on disk, every outcome of the external tools.
Init ==
  /\ args \in [deploy : BOOLEAN, render : BOOLEAN]
  /\ \E n \in 0..MaxScenes, k \in 0..MaxFrozen :
       /\ \E s \in SceneRecords(n, {"unset", "false"}) :
            config = [scenes |-> s, meta |-> Meta(500, 30, 15),
                      frozen_assets |-> [j \in 1..k |-> j]]
       /\ \E present \in SUBSET (1..n) :
            /\ Cardinality((1..n) \ present) <= 1
            /\ audio \in [present -> DriverDurations]
       /\ frozenDisk \in SUBSET (1..k)
  /\ pc = "verify"
  /\ BuildStart
  /\ kokoro = FALSE
  /\ EngineStart
  /\ ReportStart

Next ==
  \/ VerifyStep
  \/ BuildVoiceoverStep
  \/ GenerateTimingStep
  \/ DeployStep
  \/ RenderStep

Spec == Init /\ [][Next]_vars

\* The timeline arithmetic: build_voiceover and generate_timing_js applied to
\* every configuration of the bounded sets, all files present, tools succeeding.
TimingInit ==
  /\ args = [deploy |-> FALSE, render |-> FALSE]
  /\ \E n \in 0..MaxTimingScenes :
       /\ \E s \in SceneRecords(n, FadeOutChoices), gap \in GapChoices,
              fps \in FpsChoices :
            config = [scenes |-> s, meta |-> Meta(gap, fps, 15),
                      frozen_assets |-> <<>>]
       /\ audio \in [1..n -> WavDurations]
  /\ frozenDisk = {}
  /\ pc = "voiceover"
  /\ BuildStart
  /\ kokoro = FALSE
  /\ EngineStart
  /\ ReportStart

BuildTimeline == BuildVoiceoverWith({ToolsOk})

TimingNext ==
  \/ BuildTimeline
  \/ GenerateTimingStep

TimingSpec == TimingInit /\ [][TimingNext]_vars

----------------------------------------------------------------------------
(* Specification of a VideoPitchEngine session *)

\* The state of build_video.py is not touched by the engine.
EngineInit ==
  /\ args = [deploy |-> FALSE, render |-> FALSE]
  /\ config = [scenes |-> <<>>, meta |-> Meta(500, 30, 15), frozen_assets |-> <<>>]
  /\ audio = <<>>
  /\ frozenDisk = {}
  /\ pc = "idle"
  /\ BuildStart
  /\ kokoro \in BOOLEAN
  /\ EngineStart
  /\ ReportStart

EngineNext ==
  \/ ParseScript
  \/ GenerateAudio
  \/ ConcatenateAudio
  \/ GenerateTiming
  \/ Summary

EngineSpec == EngineInit /\ [][EngineNext]_vars

----------------------------------------------------------------------------
(* Specifications of ScriptValidator and of the manifest reporter *)

IdleStart ==
  /\ args = [deploy |-> FALSE, render |-> FALSE]
  /\ config = [scenes |-> <<>>, meta |-> Meta(500, 30, 15), frozen_assets |-> <<>>]
  /\ audio = <<>>
  /\ frozenDisk = {}
  /\ pc = "idle"
  /\ BuildStart
  /\ kokoro = FALSE
  /\ EngineStart

\* analyze applied to every text of the bounded set
ValidatorInit ==
  /\ IdleStart
  /\ scriptText \in TextsOf(MaxPieces)
  /\ issues = <<>>
  /\ ManifestStart

ValidatorNext == AnalyzeScript

ValidatorSpec == ValidatorInit /\ [][ValidatorNext]_vars

ManifestNext ==
  \/ WriteEntry
  \/ GenerateManifest

ManifestInit == IdleStart /\ ReportStart

ManifestSpec == ManifestInit /\ [][ManifestNext]_vars

----------------------------------------------------------------------------
(* Properties *)

Timings == voiceover.scene_timings
NumScenes == Len(config.scenes)
Gap == config.meta.scene_gap_ms

C2_EmptyInputRejected ==
  (result.op = "generate_timing" /\ scenes = <<>>) =>
    /\ result.raised = "EmptyInputError"
    /\ ~timing.written

MissingDuration == \E i \in 1..Len(scenes) : scenes[i].duration = None

\* C3: when a scene has no measured duration, timing computation fails with
\* MissingDurationError and no engine operation proceeds with a default
\* duration in place of the missing one.
C3_MissingDurationRejected ==
  MissingDuration =>
    /\ result.op = "generate_timing" => result.raised = "MissingDurationError"
    /\ result.op = "summary" => result.raised # "none"

IsExample ==
  /\ NumScenes = 2
  /\ audio[1] = 5000 /\ audio[2] = 3000
  /\ config.scenes[1].fadeOut = "true" /\ config.scenes[2].fadeOut = "false"
  /\ Gap = 500 /\ config.meta.fps = 30 /\ config.meta.fade_frames = 15

ExampleFrames ==
  /\ timingJs.scenes[1].duration = 165
  /\ timingJs.scenes[2].duration = 90
  /\ timingJs.scenes[2].start = 165

\* C4 as stated: in TIMING.js every scene has start_frame =
\* round(start_seconds * fps) and duration_frames = round((end_seconds -
\* start_seconds) * fps), plus fade_frames exactly when fadeOut is set on the
\* scene and nothing when the configuration does not set fadeOut; the hook /
\* close example gives 165, 90 and 165.
C4_AsStated ==
  pc = "deploy" =>
    /\ \A i \in 1..NumScenes :
         /\ timingJs.scenes[i].start =
              MathRound(Timings[i].start * config.meta.fps, 1000)
         /\ timingJs.scenes[i].duration =
              MathRound((Timings[i].end - Timings[i].start) * config.meta.fps, 1000)
                + (IF config.scenes[i].fadeOut = "true"
                   THEN config.meta.fade_frames ELSE 0)
    /\ IsExample => ExampleFrames

\* C4 amended: start_frame = Math.round(S * fps) and duration_frames =
\* Math.round((E - S) * fps) where S and E are the start and end seconds as
\* printed with two decimals, plus fade_frames exactly when the scene's fadeOut
\* is true or is not set in the configuration (it defaults to true); the hook /
\* close example gives 165, 90 and 165.
C4_FrameQuantization ==
  pc = "deploy" =>
    /\ Len(timingJs.scenes) = NumScenes
    /\ \A i \in 1..NumScenes :
         LET S == Fmt2(Timings[i].start)
             E == Fmt2(Timings[i].end)
             fps == config.meta.fps
         IN /\ timingJs.scenes[i].start = (2 * S * fps + 100) \div 200
            /\ timingJs.scenes[i].duration =
                 ((2 * (E - S) * fps + 100) \div 200)
                   + (IF config.scenes[i].fadeOut \in {"true", "unset"}
                      THEN config.meta.fade_frames ELSE 0)
    /\ IsExample => ExampleFrames

\* C4 witness: TIMING.js written for the hook / close example.
C4_Witness == pc = "deploy" /\ IsExample /\ ExampleFrames

FadeAllowance(i) ==
  IF Timings[i].fadeOut THEN timingJs.fade_frames ELSE 0

\* C5 as stated: for fps in {24, 25, 30, 60} and any scene sequence, the sum of
\* the per-scene duration_frames differs from round(total_duration_seconds *
\* fps) by at most 1 frame.
C5_AsStated ==
  pc = "deploy" =>
    Abs(SumSeq([i \in 1..NumScenes |-> timingJs.scenes[i].duration])
          - MathRound(voiceover.total_duration * config.meta.fps, 1000)) <= 1

\* C5 amended: for fps in {24, 25, 30, 60} and any non-empty scene sequence,
\* the end frame of the last scene in TIMING.js (its start_frame plus its
\* duration_frames without the fade allowance) differs from the
\* durationInFrames written in the same file, Math.round(total_duration as
\* printed with two decimals * fps), by at most 1 frame.
C5_LastSceneEndFrame ==
  (pc = "deploy" /\ NumScenes >= 1 /\ config.meta.fps \in {24, 25, 30, 60}) =>
    /\ Abs(timingJs.scenes[NumScenes].start
             + timingJs.scenes[NumScenes].duration - FadeAllowance(NumScenes)
             - timingJs.durationInFrames) <= 1
    /\ timingJs.durationInFrames =
         (2 * Fmt2(voiceover.total_duration) * config.meta.fps + 100) \div 200

\* C5 witness: three scenes with gaps and fades whose last end frame is off
\* the total by exactly one frame.
C5_Witness ==
  /\ pc = "deploy"
  /\ NumScenes = 3
  /\ Gap > 0
  /\ Timings[3].fadeOut
  /\ Abs(timingJs.scenes[3].start + timingJs.scenes[3].duration
           - FadeAllowance(3) - timingJs.durationInFrames) = 1

AssemblyEnded == pc \in {"timing", "deploy", "render", "returned", "complete", "crashed"}

\* C6: whenever audio assembly ends, by returning or by aborting with an
\* error, no intermediate working file (concat list, silence clip,
\* intermediate WAV) remains on disk.
C6_WorkingFilesRemoved ==
  AssemblyEnded => files \cap {CONCAT_LIST, SILENCE_FILE, TEMP_WAV} = {}

\* C7: when a scene's audio file is missing, assembly fails with an error
\* naming that scene and no external-tool invocation precedes the failure.
C7_MissingAssetBeforeTools ==
  error.what = "Scene audio missing" =>
    /\ error.about \notin DOMAIN audio
    /\ toolCalls = <<>>

FailedAssemblyTool ==
  \E i \in 1..Len(toolCalls) :
    /\ toolCalls[i].step \in {"silence", "concat", "encode"}
    /\ ~toolCalls[i].ok

\* C8: after an external transcoding-tool invocation of assembly exits
\* non-zero, build_voiceover never returns an output path and the driver
\* never reports the build as complete.
C8_ToolFailureFatal ==
  FailedAssemblyTool =>
    /\ ~voiceover.returned
    /\ pc # "complete"

\* C9: with --render and without --deploy the usage error is reported before
\* any stage executes: no frozen-asset check, voiceover build, timing
\* generation or file write happens, and the run does not end as a build.
C9_RenderUsageFirst ==
  (args.render /\ ~args.deploy) =>
    /\ pc \in {"verify", "returned"}
    /\ stdout \in {<<>>, <<"--render requires --deploy">>}
    /\ toolCalls = <<>>
    /\ files = {}

FrozenAssetAbsent ==
  \E j \in 1..Len(config.frozen_assets) : config.frozen_assets[j] \notin frozenDisk

\* C10: if a path of frozen_assets is absent, verify_frozen_assets raises
\* before build_voiceover, generate_timing_js or deploy run: no external tool
\* is invoked and no audio, timing or deploy artifact is written.
C10_FrozenAssetGate ==
  FrozenAssetAbsent =>
    /\ pc \in {"verify", "crashed"}
    /\ pc = "crashed" => error.what = "Frozen asset missing"
    /\ toolCalls = <<>>
    /\ files = {}
    /\ ~voiceover.returned
    /\ timingJs = NoTimingJs
    /\ rootTsx = 0

\* C10 witness: the build stopped on a missing frozen asset that is not the
\* first of the list, with scenes configured and a deploy requested.
C10_Witness ==
  /\ pc = "crashed"
  /\ error.what = "Frozen asset missing"
  /\ error.about = 2
  /\ NumScenes >= 1
  /\ args.deploy

\* C11: parse_script always yields scenes whose ids are pairwise distinct;
\* when heading normalization or the positional fallback would give two
\* scenes the same id, parsing fails with DuplicateSceneIdError instead.
C11_DistinctSceneIds ==
  result.op = "parse_script" =>
    \/ result.raised = "DuplicateSceneIdError"
    \/ \A i, j \in 1..Len(scenes) : i # j => scenes[i].id # scenes[j].id

\* C12: over any sequence of engine operations a scene's id and text never
\* change after creation and its duration changes at most once, from unset to
\* set; once set, no later operation (a repeated generate_audio included)
\* overwrites it.  Stated for every step that does not create the scenes anew.
C12_SceneFrame ==
  [][result'.op # "parse_script" =>
       /\ Len(scenes') = Len(scenes)
       /\ \A i \in 1..Len(scenes) :
            /\ scenes'[i].id = scenes[i].id
            /\ scenes'[i].text = scenes[i].text
            /\ scenes[i].duration # None =>
                 scenes'[i].duration = scenes[i].duration]_vars

\* Position in ms at which scene i starts in the track concatenate_audio lays
\* down: the measured durations of the scenes before it plus one gap each.
AudioStartMs(t, i) ==
  SumSeq([k \in 1..(i - 1) |-> t.scenes[k].duration_ms]) + (i - 1) * t.gap_ms

\* Length in ms of the concatenated track: every scene, a gap between each pair
TrackMs(t) ==
  SumSeq([k \in 1..Len(t.scenes) |-> t.scenes[k].duration_ms])
    + (Len(t.scenes) - 1) * t.gap_ms

\* C16: the timing table written by generate_timing stays within one frame of
\* the assembled audio track: every start_frame differs by at most one from
\* round(audio_start * fps), and total_duration * fps by at most one frame
\* from the track's length in frames, however many scenes there are.
C16_TimingMatchesAudio ==
  (timing.written /\ Len(timing.scenes) >= 1) =>
    /\ \A i \in 1..Len(timing.scenes) :
         Abs(timing.scenes[i].start_frame
               - MathRound(AudioStartMs(timing, i) * timing.fps, 1000)) <= 1
    /\ Abs(timing.total_frames * 1000 - TrackMs(timing) * timing.fps) <= 1000

\* The clips referenced by a concatenation plan, in order: clips[k] is the
\* clip of the k-th scene.  The plan has one entry per scene and one silence
\* entry between each consecutive pair, alternating, scene entries outermost.
IsAlternatingPlan(plan, clips) ==
  LET n == Len(clips) IN
    /\ Len(plan) = 2 * n - 1
    /\ \A k \in 1..n : /\ plan[2 * k - 1].kind = "scene"
                       /\ plan[2 * k - 1].file = clips[k]
    /\ \A k \in 1..(n - 1) : plan[2 * k] = SilenceEntry

\* C15: the concatenation plan written by build_voiceover for n >= 1 scenes
\* is the scene clips in scene-list order with the one silence clip between
\* each consecutive pair: n scene entries, n - 1 silence entries, alternating,
\* a scene entry first and last.
C15_ConcatPlanAlternates ==
  (voiceover.returned /\ NumScenes >= 1) =>
    IsAlternatingPlan(voiceover.concat,
                      [k \in 1..NumScenes |-> config.scenes[k].file])

C15_Witness ==
  /\ voiceover.returned
  /\ NumScenes = 3
  /\ Len(voiceover.concat) = 5
  /\ voiceover.concat[4] = SilenceEntry
  /\ voiceover.concat[5].kind = "scene"

\* The same shape holds for concat_list.txt as written by
\* VideoPitchEngine.concatenate_audio over the parsed scenes.
EngineConcatListAlternates ==
  (result.op = "concatenate_audio" /\ Len(scenes) >= 1) =>
    IsAlternatingPlan(concatList, [k \in 1..Len(scenes) |-> scenes[k].id])

\* Position of a key in a table, of an issue type in the order of the checks
IndexIn(table, key) == CHOOSE k \in 1..Len(table) : table[k] = key
CheckOrder == <<"acronym", "compound", "number", "brand">>
PatternOrder == <<"currency", "large_number", "percentage", "formatted_number">>

\* Issues x, y of one table's check stand in the table's order
InTableOrder(x, y) ==
  /\ x.issue_type = "acronym" => IndexIn(ACRONYMS, x.found) < IndexIn(ACRONYMS, y.found)
  /\ x.issue_type = "compound" => IndexIn(COMPOUNDS, x.found) < IndexIn(COMPOUNDS, y.found)
  /\ x.issue_type = "brand" => IndexIn(BRANDS, x.found) < IndexIn(BRANDS, y.found)

\* C13, as stated: analyze returns the acronym issues, then the compound
\* issues, then the number issues in the order their matches occur in the
\* text whichever pattern matched, then the brand issues.
C13_AsStated ==
  \A a, b \in 1..Len(issues) :
    a < b =>
      LET x == issues[a]
          y == issues[b]
      IN /\ IndexIn(CheckOrder, x.issue_type) <= IndexIn(CheckOrder, y.issue_type)
         /\ x.issue_type = y.issue_type =>
              /\ InTableOrder(x, y)
              /\ x.issue_type = "number" => x.match_start <= y.match_start

\* C13, amended: analyze returns the acronym issues in table order, then the
\* compound issues in table order, then the number issues pattern by pattern
\* (currency, large_number, percentage, formatted_number) and in text order
\* only among the matches of one pattern, then the brand issues in table order.
C13_IssueOrder ==
  \A a, b \in 1..Len(issues) :
    a < b =>
      LET x == issues[a]
          y == issues[b]
      IN /\ IndexIn(CheckOrder, x.issue_type) <= IndexIn(CheckOrder, y.issue_type)
         /\ x.issue_type = y.issue_type =>
              /\ InTableOrder(x, y)
              /\ x.issue_type = "number" =>
                   \/ IndexIn(PatternOrder, x.num_type) < IndexIn(PatternOrder, y.num_type)
                   \/ /\ x.num_type = y.num_type
                      /\ x.match_start < y.match_start

\* A text whose number matches occur in another order than their patterns
\* are listed, next to an acronym and a second match of one pattern
C13_Witness ==
  /\ \E a, b \in 1..Len(issues) :
       /\ a < b
       /\ issues[a].issue_type = "number" /\ issues[b].issue_type = "number"
       /\ issues[a].num_type # issues[b].num_type
       /\ issues[a].match_start > issues[b].match_start
  /\ \E a, b \in 1..Len(issues) :
       /\ a < b
       /\ issues[a].issue_type = "number" /\ issues[b].issue_type = "number"
       /\ issues[a].num_type = issues[b].num_type

\* C14: generate_manifest is deterministic: a run that finds the tracked
\* files (.wav, .mp3, .yaml, .json) with the names and contents the previous
\* run found writes the identical manifest document, whatever the order in
\* which the directory is enumerated and whenever the run happens.
C14_ManifestDeterministic ==
  [][(manifest.written /\ hashedFiles' = hashedFiles) => manifest' = manifest]_vars

\* The hash lines alone: one per tracked file read, sorted by filename, each
\* with the digest of the file's bytes.
ManifestLinesSorted ==
  manifest.written =>
    /\ {manifest.lines[k].name : k \in 1..Len(manifest.lines)} = DOMAIN hashedFiles
    /\ Len(manifest.lines) = Cardinality(DOMAIN hashedFiles)
    /\ \A k \in 1..Len(manifest.lines) :
         manifest.lines[k].sha256 = Sha256(hashedFiles[manifest.lines[k].name])
    /\ \A k \in 1..(Len(manifest.lines) - 1) :
         StrLess(manifest.lines[k].name, manifest.lines[k + 1].name)

====
